---- MODULE Spec2Model ----
(***************************************************************************)
(* Model of the mini RDBMS storage core: Column (src/db/column.py), Index   *)
(* (src/db/index.py), Table (src/db/table.py) and the DatabaseEngine        *)
(* catalog (src/db/engine.py).  Every call of the programmatic API is one   *)
(* atomic action; the effect of a call is computed by operators that follow *)
(* the statements of the Python methods.  The requests of the HTTP front    *)
(* end (src/web/app.py) run Table.insert statement by statement.  index_obj *)
(* is an Index of its own, for the calls of Index that no Table makes.      *)
(***************************************************************************)
EXTENDS Integers, Sequences, FiniteSets, TLC

VARIABLES tables, last, requests, index_obj

vars == <<tables, last, requests, index_obj>>

(***************************************************************************)
(* Bounds                                                                  *)
(***************************************************************************)
\* Largest number of rows a table is allowed to grow to.
MaxRows == 3

(***************************************************************************)
(* Values.  A Python value is None, an int or a str.                       *)
(***************************************************************************)
Null == [kind |-> "null", n |-> 0, s |-> ""]

IntV(n) == [kind |-> "int", n |-> n, s |-> ""]

TextV(s) == [kind |-> "text", n |-> 0, s |-> s]

\* Raw values the callers pass to insert and update.
RawValues == {IntV(1), TextV("1"), TextV("a"), Null}

\* Literals the callers pass in where-conditions.
CondValues == {IntV(1), TextV("a"), Null}

\* Integers whose decimal text int() is asked to parse in this model.
ParseRange == 0..9

Digit == <<"0", "1", "2", "3", "4", "5", "6", "7", "8", "9">>

\* str(n) for an int n.
RECURSIVE str_int(_)
str_int(n) ==
    IF n < 0 THEN "-" \o str_int(-n)
    ELSE IF n < 10 THEN Digit[n + 1]
    ELSE str_int(n \div 10) \o Digit[(n % 10) + 1]

\* int(s) for a str s: the integer whose decimal text s is, if any.
int_str(s) ==
    IF \E n \in ParseRange : str_int(n) = s
    THEN [ok |-> TRUE, n |-> CHOOSE n \in ParseRange : str_int(n) = s]
    ELSE [ok |-> FALSE, n |-> 0]

(***************************************************************************)
(* Column                                                                  *)
(***************************************************************************)
\* Column.__init__: a primary key is always unique.
Column(name, data_type, is_primary_key, is_unique) ==
    [name |-> name, data_type |-> data_type,
     is_primary_key |-> is_primary_key,
     is_unique |-> (is_unique \/ is_primary_key)]

\* Column.validate_value: None passes through, INT columns apply int(),
\* TEXT columns apply str(); a failed conversion is a TypeError.
validate_value(col, value) ==
    IF value.kind = "null" THEN [ok |-> TRUE, v |-> Null]
    ELSE IF col.data_type = "INT" THEN
        IF value.kind = "int" THEN [ok |-> TRUE, v |-> IntV(value.n)]
        ELSE LET p == int_str(value.s)
             IN  IF p.ok THEN [ok |-> TRUE, v |-> IntV(p.n)]
                 ELSE [ok |-> FALSE, v |-> Null]
    ELSE
        IF value.kind = "int" THEN [ok |-> TRUE, v |-> TextV(str_int(value.n))]
        ELSE [ok |-> TRUE, v |-> TextV(value.s)]

(***************************************************************************)
(* Index: _index is the forward map value -> slot, _reverse_index the map  *)
(* slot -> value.  Slots are zero-based as in the code.                    *)
(***************************************************************************)
EmptyIndex == [fwd |-> <<>>, rev |-> <<>>]

\* dict without key k
DictDel(d, k) == [x \in (DOMAIN d) \ {k} |-> d[x]]

\* dict with d[k] = v
DictSet(d, k, v) == [x \in (DOMAIN d) \cup {k} |-> IF x = k THEN v ELSE d[x]]

\* Index.__contains__
IndexContains(index, value) == value \in DOMAIN index.fwd

\* An Index.get that answers slot 0, not None, for a value it does not hold.
IndexGetDefaultZero(index, value) ==
    IF value \in DOMAIN index.fwd THEN index.fwd[value] ELSE 0

\* Index.get: the slot of value; -1 stands for None.
IndexGet(index, value) ==
    IF value \in DOMAIN index.fwd THEN index.fwd[value] ELSE -1

\* An Index.add that sets the forward map only.
IndexAddForwardOnly(index, value, row_index) ==
    IF value \in DOMAIN index.fwd
    THEN [ok |-> FALSE, index |-> index]
    ELSE [ok |-> TRUE,
          index |-> [fwd |-> DictSet(index.fwd, value, row_index),
                     rev |-> index.rev]]

\* Index.add: ValueError when the value is present, else both maps are set.
IndexAdd(index, value, row_index) ==
    IF value \in DOMAIN index.fwd
    THEN [ok |-> FALSE, index |-> index]
    ELSE [ok |-> TRUE,
          index |-> [fwd |-> DictSet(index.fwd, value, row_index),
                     rev |-> DictSet(index.rev, row_index, value)]]

\* An Index.remove that drops the forward entry of value whatever its slot.
IndexRemoveAnySlot(index, value, row_index) ==
    [fwd |-> IF value \in DOMAIN index.fwd
             THEN DictDel(index.fwd, value) ELSE index.fwd,
     rev |-> IF row_index \in DOMAIN index.rev
             THEN DictDel(index.rev, row_index) ELSE index.rev]

\* Index.remove
IndexRemove(index, value, row_index) ==
    [fwd |-> IF value \in DOMAIN index.fwd /\ index.fwd[value] = row_index
             THEN DictDel(index.fwd, value) ELSE index.fwd,
     rev |-> IF row_index \in DOMAIN index.rev
             THEN DictDel(index.rev, row_index) ELSE index.rev]

\* An Index.update that puts the old entry back when add raises.
IndexUpdateRestoring(index, old_value, new_value, row_index) ==
    LET a == IndexAdd(IndexRemove(index, old_value, row_index),
                      new_value, row_index)
    IN  IF a.ok THEN a ELSE [ok |-> FALSE, index |-> index]

\* Index.update: remove, then add; the ValueError of add leaves the index
\* as remove left it.
IndexUpdate(index, old_value, new_value, row_index) ==
    IndexAdd(IndexRemove(index, old_value, row_index), new_value, row_index)

\* A renumbering that leaves every slot as it is.
ShiftSlotNever(idx, deleted_index) == idx

\* The slot an entry has after the row at deleted_index went away.
ShiftSlot(idx, deleted_index) == IF idx > deleted_index THEN idx - 1 ELSE idx

\* Index.adjust_for_deletion: both maps are rebuilt from the forward map,
\* entries at deleted_index are dropped.
IndexAdjustForDeletion(index, deleted_index) ==
    LET kept == {v \in DOMAIN index.fwd : index.fwd[v] # deleted_index}
        new_index == [v \in kept |-> ShiftSlot(index.fwd[v], deleted_index)]
        slots == {new_index[v] : v \in kept}
    IN  [fwd |-> new_index,
         rev |-> [s \in slots |-> CHOOSE v \in kept : new_index[v] = s]]

(***************************************************************************)
(* Table: columns (a sequence of Columns), rows (the row store, slot s is   *)
(* rows[s + 1]) and indexes (one Index per primary-key/unique column name). *)
(* An operation yields the table it leaves behind, the error it raised      *)
(* ("none" when it returned), its return value and its result rows.         *)
(***************************************************************************)
Outcome(tbl, err, ret, result) ==
    [tbl |-> tbl, err |-> err, ret |-> ret, result |-> result]

ColumnNames(columns) == {columns[i].name : i \in DOMAIN columns}

\* Names of the columns that get an Index.
IndexedNames(columns) ==
    {columns[i].name : i \in {j \in DOMAIN columns :
                                columns[j].is_primary_key \/ columns[j].is_unique}}

\* A Table.__init__ that does not count the primary keys.
TableInitAnyKeys(columns) ==
    IF Len(columns) = 0 THEN [ok |-> FALSE, tbl |-> <<>>]
    ELSE [ok |-> TRUE,
          tbl |-> [columns |-> columns,
                   rows |-> <<>>,
                   indexes |-> [c \in IndexedNames(columns) |-> EmptyIndex]]]

\* Table.__init__
TableInit(columns) ==
    IF Len(columns) = 0 THEN [ok |-> FALSE, tbl |-> <<>>]
    ELSE IF Cardinality({i \in DOMAIN columns : columns[i].is_primary_key}) > 1
    THEN [ok |-> FALSE, tbl |-> <<>>]
    ELSE [ok |-> TRUE,
          tbl |-> [columns |-> columns,
                   rows |-> <<>>,
                   indexes |-> [c \in IndexedNames(columns) |-> EmptyIndex]]]

\* self.column_dict: for a name declared twice the later column wins.
column_dict(tbl) ==
    [c \in ColumnNames(tbl.columns) |->
        tbl.columns[CHOOSE i \in DOMAIN tbl.columns :
                        /\ tbl.columns[i].name = c
                        /\ \A j \in DOMAIN tbl.columns :
                               tbl.columns[j].name = c => j <= i]]

\* Names of self.indexes in dict order (order of first declaration).
RECURSIVE IndexOrder(_, _)
IndexOrder(columns, seen) ==
    IF columns = <<>> THEN <<>>
    ELSE LET col == Head(columns)
         IN  IF (col.is_primary_key \/ col.is_unique) /\ col.name \notin seen
             THEN <<col.name>> \o IndexOrder(Tail(columns), seen \cup {col.name})
             ELSE IndexOrder(Tail(columns), seen)

\* row.get(col_name): None for a key the row does not have.
RowGet(row, col_name) == IF col_name \in DOMAIN row THEN row[col_name] ELSE Null

\* Table.insert, the loop over zip(columns, values): what column i does.
InsertColumnCheck(tbl, values, i) ==
    LET col == tbl.columns[i]
        validated == validate_value(col, values[i])
    IN  IF ~validated.ok THEN "TypeError"
        ELSE IF (col.is_primary_key \/ col.is_unique)
                /\ IndexContains(tbl.indexes[col.name], validated.v)
        THEN "ConstraintViolation"
        ELSE "none"

\* The row dictionary the loop builds (a later column of the same name
\* overwrites an earlier one).
InsertRow(tbl, values) ==
    [c \in ColumnNames(tbl.columns) |->
        LET i == CHOOSE i \in DOMAIN tbl.columns :
                    /\ tbl.columns[i].name = c
                    /\ \A j \in DOMAIN tbl.columns :
                           tbl.columns[j].name = c => j <= i
        IN  validate_value(tbl.columns[i], values[i]).v]

\* Table.insert, "Update indexes": index.add for every index in dict order,
\* stopping at the first add that raises.
RECURSIVE InsertAddIndexes(_, _, _, _)
InsertAddIndexes(indexes, order, row, slot) ==
    IF order = <<>> THEN [ok |-> TRUE, indexes |-> indexes]
    ELSE LET c == Head(order)
             a == IndexAdd(indexes[c], row[c], slot)
         IN  IF ~a.ok THEN [ok |-> FALSE, indexes |-> indexes]
             ELSE InsertAddIndexes([indexes EXCEPT ![c] = a.index],
                                   Tail(order), row, slot)

\* Table.insert
insert(tbl, values) ==
    IF Len(values) # Len(tbl.columns)
    THEN Outcome(tbl, "ValueCountError", 0, <<>>)
    ELSE LET bad == {i \in DOMAIN tbl.columns :
                        InsertColumnCheck(tbl, values, i) # "none"}
         IN  IF bad # {}
             THEN LET i == CHOOSE i \in bad : \A j \in bad : i <= j
                  IN  Outcome(tbl, InsertColumnCheck(tbl, values, i), 0, <<>>)
             ELSE LET row == InsertRow(tbl, values)
                      rows == Append(tbl.rows, row)
                      a == InsertAddIndexes(tbl.indexes,
                                            IndexOrder(tbl.columns, {}),
                                            row, Len(rows) - 1)
                      after == [tbl EXCEPT !.rows = rows, !.indexes = a.indexes]
                  IN  IF a.ok THEN Outcome(after, "none", 0, <<>>)
                      ELSE Outcome(after, "ConstraintViolation", 0, <<>>)

\* A scan that tests the first condition only.
RowMatchesFirst(row, conditions) ==
    RowGet(row, conditions[1][1]) = conditions[1][2]

\* The scan of Table.select: a row matches when every condition's column
\* equals the literal.
RowMatches(row, conditions) ==
    \A k \in DOMAIN conditions :
        RowGet(row, conditions[k][1]) = conditions[k][2]

RECURSIVE FilterRows(_, _)
FilterRows(rows, conditions) ==
    IF rows = <<>> THEN <<>>
    ELSE IF RowMatches(Head(rows), conditions)
         THEN <<Head(rows)>> \o FilterRows(Tail(rows), conditions)
         ELSE FilterRows(Tail(rows), conditions)

\* Table.select: all rows, the index path, or the scan.
select(tbl, conditions) ==
    IF Len(conditions) = 0 THEN Outcome(tbl, "none", 0, tbl.rows)
    ELSE IF Len(conditions) = 1 /\ conditions[1][1] \in DOMAIN tbl.indexes
    THEN LET idx == IndexGet(tbl.indexes[conditions[1][1]], conditions[1][2])
         IN  IF idx = -1 THEN Outcome(tbl, "none", 0, <<>>)
             ELSE IF idx >= Len(tbl.rows)
             THEN Outcome(tbl, "IndexError", 0, <<>>)
             ELSE Outcome(tbl, "none", 0, <<tbl.rows[idx + 1]>>)
    ELSE Outcome(tbl, "none", 0, FilterRows(tbl.rows, conditions))

\* "Get row indices": for every selected row the first slot whose row has
\* the same content.
RowIndices(rows, selected) ==
    [k \in DOMAIN selected |->
        (CHOOSE i \in DOMAIN rows :
            /\ rows[i] = selected[k]
            /\ \A j \in DOMAIN rows : rows[j] = selected[k] => i <= j) - 1]

\* Rows an update or delete works on: self.select(conditions) if there
\* are conditions, else self.rows.
TargetRows(tbl, conditions) == select(tbl, conditions)

\* Table.update, validation pass: what assignment j does for the k-th
\* target slot.  Only assignments to indexed columns are looked at.
UpdateCheck(tbl, indices, updates, k, j) ==
    LET col_name == updates[j][1]
    IN  IF col_name \notin DOMAIN tbl.indexes THEN "none"
        ELSE LET validated == validate_value(column_dict(tbl)[col_name],
                                             updates[j][2])
                 existing_idx == IndexGet(tbl.indexes[col_name], validated.v)
             IN  IF ~validated.ok THEN "TypeError"
                 ELSE IF existing_idx # -1 /\ existing_idx # indices[k]
                 THEN "ConstraintViolation"
                 ELSE "none"

\* The first error of the validation pass ("none" if it passes); the
\* targets are the outer loop, the assignments the inner one.
UpdateValidation(tbl, indices, updates) ==
    LET bad == {p \in (DOMAIN indices) \X (DOMAIN updates) :
                    UpdateCheck(tbl, indices, updates, p[1], p[2]) # "none"}
    IN  IF bad = {} THEN "none"
        ELSE LET p == CHOOSE p \in bad : \A q \in bad :
                          p[1] < q[1] \/ (p[1] = q[1] /\ p[2] <= q[2])
             IN  UpdateCheck(tbl, indices, updates, p[1], p[2])

\* An apply pass that leaves the old values in the indexes.
UpdateKeepOld(tbl, idx, updates) == tbl

\* Table.update, apply pass, "Remove old values from indexes" for slot idx.
UpdateRemoveOld(tbl, idx, updates) ==
    LET cols == {updates[j][1] : j \in DOMAIN updates}
        row == tbl.rows[idx + 1]
    IN  [tbl EXCEPT !.indexes =
            [c \in DOMAIN tbl.indexes |->
                IF c \in cols THEN IndexRemove(tbl.indexes[c], row[c], idx)
                ELSE tbl.indexes[c]]]

\* Table.update, apply pass, "Update row" for slot idx from assignment j
\* on: each assignment is validated, written into the row and added to
\* its index; the first failure ends the update where it stands.
RECURSIVE UpdateWrite(_, _, _, _)
UpdateWrite(tbl, idx, updates, j) ==
    IF j > Len(updates) THEN [err |-> "none", tbl |-> tbl]
    ELSE LET col_name == updates[j][1]
         IN  IF col_name \notin ColumnNames(tbl.columns)
             THEN [err |-> "KeyError", tbl |-> tbl]
             ELSE LET validated == validate_value(column_dict(tbl)[col_name],
                                                  updates[j][2])
                      written == [tbl EXCEPT !.rows[idx + 1][col_name] = validated.v]
                  IN  IF ~validated.ok THEN [err |-> "TypeError", tbl |-> tbl]
                      ELSE IF col_name \notin DOMAIN tbl.indexes
                      THEN UpdateWrite(written, idx, updates, j + 1)
                      ELSE LET a == IndexAdd(tbl.indexes[col_name], validated.v, idx)
                           IN  IF ~a.ok
                               THEN [err |-> "ConstraintViolation", tbl |-> written]
                               ELSE UpdateWrite(
                                      [written EXCEPT !.indexes[col_name] = a.index],
                                      idx, updates, j + 1)

\* An apply pass that starts every target row afresh, all fields None.
RECURSIVE UpdateApplyFreshRow(_, _, _, _)
UpdateApplyFreshRow(tbl, indices, updates, k) ==
    IF k > Len(indices) THEN Outcome(tbl, "none", Len(indices), <<>>)
    ELSE LET removed == UpdateRemoveOld(tbl, indices[k], updates)
             fresh == [removed EXCEPT !.rows[indices[k] + 1] =
                          [c \in DOMAIN @ |-> Null]]
             w == UpdateWrite(fresh, indices[k], updates, 1)
         IN  IF w.err # "none" THEN Outcome(w.tbl, w.err, 0, <<>>)
             ELSE UpdateApplyFreshRow(w.tbl, indices, updates, k + 1)

\* Table.update, apply pass over the target slots from the k-th on.
RECURSIVE UpdateApply(_, _, _, _)
UpdateApply(tbl, indices, updates, k) ==
    IF k > Len(indices) THEN Outcome(tbl, "none", Len(indices), <<>>)
    ELSE LET w == UpdateWrite(UpdateRemoveOld(tbl, indices[k], updates),
                              indices[k], updates, 1)
         IN  IF w.err # "none" THEN Outcome(w.tbl, w.err, 0, <<>>)
             ELSE UpdateApply(w.tbl, indices, updates, k + 1)

\* Table.update
update(tbl, updates, conditions) ==
    LET sel == TargetRows(tbl, conditions)
    IN  IF sel.err # "none" THEN Outcome(tbl, sel.err, 0, <<>>)
        ELSE LET indices == RowIndices(tbl.rows, sel.result)
                 v == UpdateValidation(tbl, indices, updates)
             IN  IF v # "none" THEN Outcome(tbl, v, 0, <<>>)
                 ELSE UpdateApply(tbl, indices, updates, 1)

\* A slot list left in the order of the selected rows.
Unsorted(s) == s

\* indices.sort(reverse=True)
RECURSIVE SortReverse(_)
SortReverse(s) ==
    IF s = <<>> THEN <<>>
    ELSE LET i == CHOOSE i \in DOMAIN s : \A j \in DOMAIN s : s[j] <= s[i]
         IN  <<s[i]>> \o SortReverse(SubSeq(s, 1, i - 1) \o SubSeq(s, i + 1, Len(s)))

\* del self.rows[idx]
DelRow(rows, idx) == SubSeq(rows, 1, idx) \o SubSeq(rows, idx + 2, Len(rows))

\* Table.delete, one pass of "Delete rows": the row's values leave every
\* index, every index is renumbered, the row leaves the row store.
DeleteAt(tbl, idx) ==
    LET row == tbl.rows[idx + 1]
    IN  [tbl EXCEPT
            !.indexes = [c \in DOMAIN tbl.indexes |->
                            IndexAdjustForDeletion(
                                IndexRemove(tbl.indexes[c], row[c], idx), idx)],
            !.rows = DelRow(tbl.rows, idx)]

\* Table.delete, the loop over the sorted slots from the k-th on.
RECURSIVE DeleteApply(_, _, _)
DeleteApply(tbl, indices, k) ==
    IF k > Len(indices) THEN Outcome(tbl, "none", Len(indices), <<>>)
    ELSE IF indices[k] >= Len(tbl.rows) THEN Outcome(tbl, "IndexError", 0, <<>>)
    ELSE DeleteApply(DeleteAt(tbl, indices[k]), indices, k + 1)

\* The tables the loop "Delete rows" passes through from its k-th pass on:
\* the table before each pass, and the table after the last one.
RECURSIVE DeleteStates(_, _, _)
DeleteStates(tbl, indices, k) ==
    IF k > Len(indices) \/ indices[k] >= Len(tbl.rows) THEN <<tbl>>
    ELSE <<tbl>> \o DeleteStates(DeleteAt(tbl, indices[k]), indices, k + 1)

\* The slots Table.delete works on, in the order it works on them.
DeleteIndices(tbl, conditions) ==
    SortReverse(RowIndices(tbl.rows, TargetRows(tbl, conditions).result))

\* Table.delete
delete(tbl, conditions) ==
    LET sel == TargetRows(tbl, conditions)
    IN  IF sel.err # "none" THEN Outcome(tbl, sel.err, 0, <<>>)
        ELSE DeleteApply(tbl, DeleteIndices(tbl, conditions), 1)

(***************************************************************************)
(* DatabaseEngine: self.tables maps a table name to its Table.              *)
(***************************************************************************)
EngineOutcome(tbls, err, ret, result) ==
    [tables |-> tbls, err |-> err, ret |-> ret, result |-> result]

\* A catalog in which the outcome of a Table method replaces every table.
OnEveryTable(tbls, table_name, out) ==
    EngineOutcome([n \in DOMAIN tbls |-> out.tbl],
                  out.err, out.ret, out.result)

\* A Table method called through DatabaseEngine._get_table: an unknown name
\* raises before the table method runs.
OnTable(tbls, table_name, out) ==
    EngineOutcome([tbls EXCEPT ![table_name] = out.tbl],
                  out.err, out.ret, out.result)

\* DatabaseEngine.insert_into
insert_into(tbls, table_name, values) ==
    IF table_name \notin DOMAIN tbls
    THEN EngineOutcome(tbls, "SchemaError", 0, <<>>)
    ELSE OnTable(tbls, table_name, insert(tbls[table_name], values))

\* The projection of select_from: the requested columns the row has.
Project(row, columns) ==
    [c \in {columns[i] : i \in DOMAIN columns} \cap DOMAIN row |-> row[c]]

\* The columns argument of select_from: None, or a list of column names.
AllColumns == [given |-> FALSE, names |-> <<>>]

Columns(names) == [given |-> TRUE, names |-> names]

\* The test "if columns": a list with at least one name.
Truthy(columns) == columns.given /\ Len(columns.names) > 0

\* DatabaseEngine.select_from
select_from(tbls, table_name, columns, where) ==
    IF table_name \notin DOMAIN tbls
    THEN EngineOutcome(tbls, "SchemaError", 0, <<>>)
    ELSE LET out == select(tbls[table_name], where)
         IN  IF Truthy(columns)
             THEN OnTable(tbls, table_name,
                          Outcome(out.tbl, out.err, out.ret,
                                  [k \in DOMAIN out.result |->
                                      Project(out.result[k], columns.names)]))
             ELSE OnTable(tbls, table_name, out)

\* Whether the rows select_from returns are the stored row objects
\* themselves: Table.select without conditions returns self.rows.copy(), a
\* new list of the same dicts; its other paths return row.copy(), and the
\* projection builds new dicts.
select_from_shares(columns, where) == ~Truthy(columns) /\ Len(where) = 0

\* An update_table that answers 0 for a table it does not know.
UpdateUnknownAsEmpty(tbls, table_name, updates, where) ==
    IF table_name \notin DOMAIN tbls
    THEN EngineOutcome(tbls, "none", 0, <<>>)
    ELSE OnTable(tbls, table_name, update(tbls[table_name], updates, where))

\* DatabaseEngine.update_table
update_table(tbls, table_name, updates, where) ==
    IF table_name \notin DOMAIN tbls
    THEN EngineOutcome(tbls, "SchemaError", 0, <<>>)
    ELSE OnTable(tbls, table_name, update(tbls[table_name], updates, where))

\* DatabaseEngine.delete_from
delete_from(tbls, table_name, where) ==
    IF table_name \notin DOMAIN tbls
    THEN EngineOutcome(tbls, "SchemaError", 0, <<>>)
    ELSE OnTable(tbls, table_name, delete(tbls[table_name], where))

\* A create_table that replaces a table of the same name.
CreateOrReplace(tbls, table_name, columns) ==
    LET table == TableInit(columns)
    IN  IF ~table.ok
        THEN EngineOutcome(tbls, "SchemaError", 0, <<>>)
        ELSE EngineOutcome([n \in DOMAIN tbls \cup {table_name} |->
                               IF n = table_name THEN table.tbl ELSE tbls[n]],
                           "none", 0, <<>>)

\* DatabaseEngine.create_table: an existing name raises before the Table is
\* constructed; a Table.__init__ that raises leaves the catalog as it was.
create_table(tbls, table_name, columns) ==
    IF table_name \in DOMAIN tbls
    THEN EngineOutcome(tbls, "SchemaError", 0, <<>>)
    ELSE LET table == TableInit(columns)
         IN  IF ~table.ok
             THEN EngineOutcome(tbls, "SchemaError", 0, <<>>)
             ELSE EngineOutcome([n \in DOMAIN tbls \cup {table_name} |->
                                    IF n = table_name THEN table.tbl ELSE tbls[n]],
                                "none", 0, <<>>)

\* A drop_table that empties the table and keeps its name in the catalog.
DropKeepsName(tbls, table_name) ==
    IF table_name \notin DOMAIN tbls
    THEN EngineOutcome(tbls, "SchemaError", 0, <<>>)
    ELSE EngineOutcome([tbls EXCEPT ![table_name] =
                                        TableInit(tbls[table_name].columns).tbl],
                       "none", 0, <<>>)

\* DatabaseEngine.drop_table
drop_table(tbls, table_name) ==
    IF table_name \notin DOMAIN tbls
    THEN EngineOutcome(tbls, "SchemaError", 0, <<>>)
    ELSE EngineOutcome([n \in DOMAIN tbls \ {table_name} |-> tbls[n]],
                       "none", 0, <<>>)

\* Column.__repr__
column_repr(col) ==
    "Column(" \o col.name \o " " \o col.data_type
        \o (IF col.is_primary_key THEN " PRIMARY KEY"
            ELSE IF col.is_unique THEN " UNIQUE" ELSE "")
        \o ")"

\* DatabaseEngine.get_table_info
get_table_info(tbls) ==
    [n \in DOMAIN tbls |->
        [columns |-> [i \in DOMAIN tbls[n].columns |->
                         column_repr(tbls[n].columns[i])],
         row_count |-> Len(tbls[n].rows)]]

(***************************************************************************)
(* Inputs of the calls                                                     *)
(***************************************************************************)
\* Column lists the tables of the model are created with.
SchemaUsers ==
    <<Column("id", "INT", TRUE, FALSE), Column("code", "INT", FALSE, TRUE)>>

SchemaPeople ==
    <<Column("id", "INT", TRUE, FALSE), Column("age", "INT", FALSE, FALSE)>>

SchemaLog == <<Column("x", "TEXT", FALSE, FALSE)>>

SchemaKeys == <<Column("k", "TEXT", TRUE, FALSE)>>

SchemaTwice ==
    <<Column("a", "INT", FALSE, TRUE), Column("a", "INT", FALSE, FALSE)>>

SchemaMixed ==
    <<Column("a", "INT", FALSE, FALSE), Column("a", "TEXT", FALSE, FALSE)>>

Schemas ==
    {SchemaUsers, SchemaPeople, SchemaLog, SchemaKeys, SchemaTwice, SchemaMixed}

\* A column name no table of the model declares.
UnknownColumn == "zz"

ColumnsOf(table_name) ==
    IF table_name \in DOMAIN tables THEN tables[table_name].columns ELSE SchemaLog

\* Value lists passed to insert: every list of the right length, and one
\* list too short and one too long (of a text no INT column accepts).
InsertInputs(table_name) ==
    LET n == Len(ColumnsOf(table_name))
    IN  [1..n -> RawValues]
        \cup {[i \in 1..(n - 1) |-> TextV("a")], [i \in 1..(n + 1) |-> TextV("a")]}

\* Where-clauses: none, or one equality on a declared column.
WhereInputs(table_name) ==
    {<<>>} \cup {<<<<c, v>>>> : c \in ColumnNames(ColumnsOf(table_name)),
                               v \in CondValues}

\* Calls of update, as pairs <<assignments, where>>.  The assignments are
\* a dict in insertion order: one assignment under every where-clause, or
\* two assignments to different columns, on all rows.
UpdateValues == {IntV(1), TextV("a")}

UpdateInputs(table_name) ==
    LET names == ColumnNames(ColumnsOf(table_name))
        one == {<<<<c, v>>>> : c \in names, v \in RawValues}
               \cup {<<<<UnknownColumn, IntV(1)>>>>}
        two == {<<<<q[1], q[3]>>, <<q[2], q[4]>>>> :
                  q \in {r \in names \X names \X UpdateValues \X UpdateValues :
                             r[1] # r[2]}}
               \cup {<<<<c, v>>, <<UnknownColumn, IntV(1)>>>> :
                       c \in names, v \in UpdateValues}
               \cup {<<<<UnknownColumn, IntV(1)>>, <<c, v>>>> :
                       c \in names, v \in UpdateValues}
    IN  (one \X WhereInputs(table_name)) \cup (two \X {<<>>})

\* Calls of select_from, as pairs <<columns, where>>: no projection under
\* every where-clause; an empty list, one declared column, an unknown
\* column alone, an unknown column before a declared one, or two declared
\* columns, on all rows; and the unknown column before the declared column
\* that the where-clause tests.
ProjectionInputs(table_name) ==
    LET names == ColumnNames(ColumnsOf(table_name))
    IN  {Columns(<<>>)}
        \cup {Columns(<<c>>) : c \in names \cup {UnknownColumn}}
        \cup {Columns(<<UnknownColumn, c>>) : c \in names}
        \cup {Columns(<<q[1], q[2]>>) :
                 q \in {r \in names \X names : r[1] # r[2]}}

\* Where-clauses with two conditions, on different declared columns.
WhereTwoInputs(table_name) ==
    LET names == ColumnNames(ColumnsOf(table_name))
    IN  {<<<<q[1], q[3]>>, <<q[2], q[4]>>>> :
            q \in {r \in names \X names \X CondValues \X CondValues :
                      r[1] # r[2]}}

SelectInputs(table_name) ==
    ({AllColumns} \X (WhereInputs(table_name) \cup WhereTwoInputs(table_name)))
    \cup (ProjectionInputs(table_name) \X {<<>>})
    \cup {<<Columns(<<UnknownColumn, c>>), <<<<c, v>>>>>> :
              c \in ColumnNames(ColumnsOf(table_name)), v \in CondValues}

\* Values a caller writes into a row it was given.
MutateValues == {IntV(1), Null}

\* Table names callers use, and the column lists they create tables with:
\* three valid ones, the empty list and a list with two primary keys.
TableNames == {"t", "u"}

SchemaTwoKeys ==
    <<Column("id", "INT", TRUE, FALSE), Column("k", "TEXT", TRUE, FALSE)>>

CreateInputs == {SchemaLog, SchemaKeys, SchemaTwice, <<>>, SchemaTwoKeys}

(***************************************************************************)
(* The calls as actions.  last records the call just made, what it gave     *)
(* back, and the catalog before it.                                         *)
(***************************************************************************)
NoCall == [op |-> "none", table |-> "", values |-> <<>>, updates |-> <<>>,
           where |-> <<>>, err |-> "none", ret |-> 0, result |-> <<>>,
           pre |-> <<>>, columns |-> <<>>, projection |-> AllColumns,
           shared |-> FALSE,
           mutated |-> FALSE, info |-> <<>>, index |-> EmptyIndex]

RowBound(tbls) == \A n \in DOMAIN tbls : Len(tbls[n].rows) <= MaxRows

InsertInto(table_name) ==
    /\ last.op = "none"
    /\ \E values \in InsertInputs(table_name) :
        LET out == insert_into(tables, table_name, values)
        IN  /\ RowBound(out.tables)
            /\ tables' = out.tables
            /\ last' = [NoCall EXCEPT !.op = "insert", !.table = table_name,
                                      !.values = values, !.err = out.err,
                                      !.ret = out.ret, !.pre = tables]

SelectFrom(table_name) ==
    /\ last.op = "none"
    /\ \E call \in SelectInputs(table_name) :
        LET columns == call[1]
            where == call[2]
            out == select_from(tables, table_name, columns, where)
        IN  /\ tables' = out.tables
            /\ last' = [NoCall EXCEPT !.op = "select", !.table = table_name,
                                      !.projection = columns, !.where = where,
                                      !.err = out.err, !.result = out.result,
                                      !.shared = /\ out.err = "none"
                                                 /\ select_from_shares(columns, where),
                                      !.pre = tables]

UpdateTable(table_name) ==
    /\ last.op = "none"
    /\ \E call \in UpdateInputs(table_name) :
        LET updates == call[1]
            where == call[2]
            out == update_table(tables, table_name, updates, where)
        IN  /\ tables' = out.tables
            /\ last' = [NoCall EXCEPT !.op = "update", !.table = table_name,
                                      !.updates = updates, !.where = where,
                                      !.err = out.err, !.ret = out.ret,
                                      !.pre = tables]

DeleteFrom(table_name) ==
    /\ last.op = "none"
    /\ \E where \in WhereInputs(table_name) :
        LET out == delete_from(tables, table_name, where)
        IN  /\ tables' = out.tables
            /\ last' = [NoCall EXCEPT !.op = "delete", !.table = table_name,
                                      !.where = where, !.err = out.err,
                                      !.ret = out.ret, !.pre = tables]

CreateTable(table_name) ==
    /\ last.op = "none"
    /\ \E columns \in CreateInputs :
        LET out == create_table(tables, table_name, columns)
        IN  /\ tables' = out.tables
            /\ last' = [NoCall EXCEPT !.op = "create", !.table = table_name,
                                      !.columns = columns, !.err = out.err,
                                      !.pre = tables]

DropTable(table_name) ==
    /\ last.op = "none"
    /\ LET out == drop_table(tables, table_name)
       IN  /\ tables' = out.tables
           /\ last' = [NoCall EXCEPT !.op = "drop", !.table = table_name,
                                     !.err = out.err, !.pre = tables]

GetTableInfo ==
    /\ last.op = "none"
    /\ last' = [NoCall EXCEPT !.op = "info", !.info = get_table_info(tables),
                              !.pre = tables]
    /\ UNCHANGED tables

\* The caller assigns to a field of a row that select_from gave it.  When
\* the rows are shared, row k of the result is the dict stored in slot
\* k - 1 and the assignment is made to the stored row too.
MutateRow ==
    /\ last.op = "select"
    /\ ~last.mutated
    /\ \E k \in DOMAIN last.result :
        \E c \in DOMAIN last.result[k] :
        \E v \in MutateValues :
            /\ last.result[k][c] # v
            /\ last' = [last EXCEPT !.result[k][c] = v, !.mutated = TRUE]
            /\ tables' = IF last.shared
                         THEN [tables EXCEPT ![last.table].rows[k][c] = v]
                         ELSE tables

\* The caller has taken the outcome of its call and is ready for the next.
Return ==
    /\ last.op # "none"
    /\ last' = NoCall
    /\ UNCHANGED tables

\* One table "t", freshly constructed with one of the column lists.
Init ==
    /\ \E columns \in Schemas :
           tables = [n \in {"t"} |-> TableInit(columns).tbl]
    /\ last = NoCall
    /\ requests = <<>>
    /\ index_obj = EmptyIndex

Next ==
    /\ \/ \E table_name \in DOMAIN tables : InsertInto(table_name)
       \/ \E table_name \in DOMAIN tables : SelectFrom(table_name)
       \/ \E table_name \in DOMAIN tables : UpdateTable(table_name)
       \/ \E table_name \in DOMAIN tables : DeleteFrom(table_name)
       \/ Return
    /\ UNCHANGED <<requests, index_obj>>

Spec == Init /\ [][Next]_vars

\* A caller that also writes into the rows it gets from select_from.
CallerSchemas == {SchemaLog, SchemaKeys}

InitCaller ==
    /\ \E columns \in CallerSchemas :
           tables = [n \in {"t"} |-> TableInit(columns).tbl]
    /\ last = NoCall
    /\ requests = <<>>
    /\ index_obj = EmptyIndex

NextCaller ==
    /\ \/ \E table_name \in DOMAIN tables : InsertInto(table_name)
       \/ \E table_name \in DOMAIN tables : SelectFrom(table_name)
       \/ \E table_name \in DOMAIN tables : DeleteFrom(table_name)
       \/ MutateRow
       \/ Return
    /\ UNCHANGED <<requests, index_obj>>

SpecCaller == InitCaller /\ [][NextCaller]_vars

\* The engine from its construction: an empty catalog, and calls under
\* every table name, in the catalog or not.  The tables of the catalog
\* hold at most MaxCatalogRows rows between them.
MaxCatalogRows == 2

RECURSIVE TotalRows(_, _)
TotalRows(tbls, names) ==
    IF names = {} THEN 0
    ELSE LET n == CHOOSE m \in names : TRUE
         IN  Len(tbls[n].rows) + TotalRows(tbls, names \ {n})

CatalogBound(tbls) == TotalRows(tbls, DOMAIN tbls) <= MaxCatalogRows

InitEngine ==
    /\ tables = <<>>
    /\ last = NoCall
    /\ requests = <<>>
    /\ index_obj = EmptyIndex

NextEngine ==
    /\ \/ \E table_name \in TableNames : CreateTable(table_name)
       \/ \E table_name \in TableNames : DropTable(table_name)
       \/ \E table_name \in TableNames : InsertInto(table_name)
       \/ \E table_name \in TableNames : SelectFrom(table_name)
       \/ \E table_name \in TableNames : UpdateTable(table_name)
       \/ \E table_name \in TableNames : DeleteFrom(table_name)
       \/ GetTableInfo
       \/ Return
    /\ CatalogBound(tables')
    /\ UNCHANGED <<requests, index_obj>>

SpecEngine == InitEngine /\ [][NextEngine]_vars

(***************************************************************************)
(* The HTTP front end (src/web/app.py): one module-level DatabaseEngine,    *)
(* used without a lock by the handlers of the requests that the server's    *)
(* threads run.  A request of add_user runs Table.insert on "users"; the    *)
(* threads may be switched between any two statements, so the checking      *)
(* loop, rows.append and every index.add are steps of their own.            *)
(***************************************************************************)
\* The table of the front end and its sample rows (e-mail addresses and
\* names shortened to one letter).
SchemaWebUsers ==
    <<Column("id", "INT", TRUE, FALSE), Column("email", "TEXT", FALSE, TRUE),
      Column("name", "TEXT", FALSE, FALSE)>>

WebSampleRows ==
    <<<<IntV(1), TextV("a"), TextV("n")>>, <<IntV(2), TextV("b"), TextV("n")>>,
      <<IntV(3), TextV("c"), TextV("n")>>>>

RECURSIVE InsertAll(_, _)
InsertAll(tbl, value_lists) ==
    IF value_lists = <<>> THEN tbl
    ELSE InsertAll(insert(tbl, Head(value_lists)).tbl, Tail(value_lists))

\* Form data of add_user: an id and an e-mail address, new or in use.
WebInputs ==
    {<<IntV(i), TextV(e), TextV("n")>> : i \in {3, 4, 5}, e \in {"c", "d", "e"}}

\* The threads of the server, and the number of rows its runs stop at.
Requests == {1, 2}

MaxWebRows == 5

Idle == [pc |-> "idle", row |-> <<>>, todo |-> <<>>]

\* Table.insert up to the end of its checking loop: an error answers the
\* request with status 400, otherwise the row is built.
WebInsertCheck(r) ==
    /\ requests[r].pc = "idle"
    /\ Len(tables["users"].rows) < MaxWebRows
    /\ \E values \in WebInputs :
        LET tbl == tables["users"]
        IN  /\ Len(values) = Len(tbl.columns)
            /\ \A i \in DOMAIN tbl.columns :
                   InsertColumnCheck(tbl, values, i) = "none"
            /\ requests' = [requests EXCEPT ![r] =
                               [pc |-> "append", row |-> InsertRow(tbl, values),
                                todo |-> <<>>]]
    /\ UNCHANGED <<tables, last>>

\* self.rows.append(row); the loop over self.indexes.items() begins.
WebInsertAppend(r) ==
    /\ requests[r].pc = "append"
    /\ tables' = [tables EXCEPT !["users"].rows = Append(@, requests[r].row)]
    /\ requests' = [requests EXCEPT ![r].pc = "index",
                                    ![r].todo = IndexOrder(tables["users"].columns, {})]
    /\ UNCHANGED last

\* index.add(row[col_name], len(self.rows) - 1) for the next index; an add
\* that raises answers the request with status 400.
WebInsertAdd(r) ==
    /\ requests[r].pc = "index"
    /\ requests[r].todo # <<>>
    /\ LET tbl == tables["users"]
           c == Head(requests[r].todo)
           a == IndexAdd(tbl.indexes[c], requests[r].row[c], Len(tbl.rows) - 1)
       IN  IF a.ok
           THEN /\ tables' = [tables EXCEPT !["users"].indexes[c] = a.index]
                /\ requests' = [requests EXCEPT ![r].todo = Tail(@)]
           ELSE /\ tables' = tables
                /\ requests' = [requests EXCEPT ![r] = Idle]
    /\ UNCHANGED last

\* insert_into has returned and add_user answers with the redirect.
WebInsertReturn(r) ==
    /\ requests[r].pc = "index"
    /\ requests[r].todo = <<>>
    /\ requests' = [requests EXCEPT ![r] = Idle]
    /\ UNCHANGED <<tables, last>>

InitWeb ==
    /\ tables = [n \in {"users"} |->
                    InsertAll(TableInit(SchemaWebUsers).tbl, WebSampleRows)]
    /\ last = NoCall
    /\ requests = [r \in Requests |-> Idle]
    /\ index_obj = EmptyIndex

NextWeb ==
    /\ \/ \E r \in Requests : WebInsertCheck(r)
       \/ \E r \in Requests : WebInsertAppend(r)
       \/ \E r \in Requests : WebInsertAdd(r)
       \/ \E r \in Requests : WebInsertReturn(r)
    /\ UNCHANGED index_obj

SpecWeb == InitWeb /\ [][NextWeb]_vars

(***************************************************************************)
(* An Index used on its own.  Index.update has no caller in the            *)
(* repository; it is called here as its parameters are documented:          *)
(* old_value is the value the index holds for row_index.                    *)
(***************************************************************************)
\* Values and slots of the entries, and the indexes a table can hold over
\* them: each value at one slot, each slot with one value.
IndexValues == CondValues

IndexSlots == 0..(MaxRows - 1)

IndexOf(pairs) ==
    [fwd |-> [v \in {p[1] : p \in pairs} |->
                 (CHOOSE p \in pairs : p[1] = v)[2]],
     rev |-> [i \in {p[2] : p \in pairs} |->
                 (CHOOSE p \in pairs : p[2] = i)[1]]]

IndexInputs ==
    {IndexOf(pairs) : pairs \in
        {P \in SUBSET (IndexValues \X IndexSlots) :
            \A p, q \in P : (p[1] = q[1] \/ p[2] = q[2]) => p = q}}

IndexUpdateCall ==
    /\ last.op = "none"
    /\ \E old_value \in DOMAIN index_obj.fwd, new_value \in IndexValues :
        LET row_index == index_obj.fwd[old_value]
            out == IndexUpdate(index_obj, old_value, new_value, row_index)
        IN  /\ index_obj' = out.index
            /\ last' = [NoCall EXCEPT !.op = "index_update",
                                      !.values = <<old_value, new_value>>,
                                      !.ret = row_index,
                                      !.err = IF out.ok THEN "none"
                                              ELSE "ConstraintViolation",
                                      !.index = index_obj]
    /\ UNCHANGED <<tables, requests>>

IndexReturn == Return /\ UNCHANGED <<requests, index_obj>>

InitIndex ==
    /\ tables = <<>>
    /\ last = NoCall
    /\ requests = <<>>
    /\ index_obj \in IndexInputs

NextIndex == IndexUpdateCall \/ IndexReturn

SpecIndex == InitIndex /\ [][NextIndex]_vars

(***************************************************************************)
(* Vocabulary of the properties                                            *)
(***************************************************************************)
\* The table the last call was made on, after and before the call.
After == tables[last.table]

Before == last.pre[last.table]

Slots(tbl) == 0..(Len(tbl.rows) - 1)

RowAt(tbl, slot) == tbl.rows[slot + 1]

\* The slots whose rows satisfy every condition of a where-clause.
MatchingSlots(tbl, where) == {s \in Slots(tbl) : RowMatches(RowAt(tbl, s), where)}

\* The index of column c holds exactly one entry per row, from the row's
\* value to the row's slot.
IndexMatchesRows(tbl, c) ==
    /\ Cardinality(DOMAIN tbl.indexes[c].fwd) = Len(tbl.rows)
    /\ \A s \in Slots(tbl) :
           /\ RowAt(tbl, s)[c] \in DOMAIN tbl.indexes[c].fwd
           /\ tbl.indexes[c].fwd[RowAt(tbl, s)[c]] = s

\* C1: after any sequence of insert, update and delete calls, successful
\* or failed, the index of every primary-key/unique column of a table with
\* n rows holds exactly n entries, one per row, each from the row's current
\* value to the row's current slot.
C1_IndexInvariant ==
    \A n \in DOMAIN tables :
        \A c \in DOMAIN tables[n].indexes : IndexMatchesRows(tables[n], c)

\* C2: in every reachable state no two rows of a table hold the same value
\* in a primary-key or unique column.
C2_RowsUnique ==
    \A n \in DOMAIN tables :
        \A c \in IndexedNames(tables[n].columns) :
            \A s1 \in Slots(tables[n]), s2 \in Slots(tables[n]) :
                s1 # s2 => RowAt(tables[n], s1)[c] # RowAt(tables[n], s2)[c]

\* An insert of the right number of coercible values, one of which is
\* passed for a primary-key/unique column whose value an existing row holds.
InsertsHeldValue ==
    /\ last.op = "insert"
    /\ Len(last.values) = Len(Before.columns)
    /\ \A i \in DOMAIN Before.columns :
           validate_value(Before.columns[i], last.values[i]).ok
    /\ \E i \in DOMAIN Before.columns :
           /\ Before.columns[i].is_unique
           /\ \E s \in Slots(Before) :
                  RowAt(Before, s)[Before.columns[i].name]
                      = validate_value(Before.columns[i], last.values[i]).v

\* C3: an insert whose value in a primary-key/unique column equals the
\* value an existing row holds in that column fails with
\* ConstraintViolation, and rows and indexes are as before the call.
C3_InsertUniqueness ==
    InsertsHeldValue => (last.err = "ConstraintViolation" /\ tables = last.pre)

\* C4: an insert that fails stores no row and changes no index, and a
\* value-count mismatch is reported as ValueCountError before any value is
\* validated.
C4_InsertAllOrNothing ==
    last.op = "insert" =>
        /\ last.err # "none" => tables = last.pre
        /\ Len(last.values) # Len(Before.columns) => last.err = "ValueCountError"

\* An update whose assignments all name declared columns with coercible
\* values, and one of which gives a primary-key/unique column a value that
\* a row outside the target set holds, or gives it to two or more targets.
UpdateBreaksUniqueness ==
    /\ last.op = "update"
    /\ \A j \in DOMAIN last.updates :
           /\ last.updates[j][1] \in ColumnNames(Before.columns)
           /\ validate_value(column_dict(Before)[last.updates[j][1]],
                             last.updates[j][2]).ok
    /\ LET targets == MatchingSlots(Before, last.where)
       IN  \E j \in DOMAIN last.updates :
               LET c == last.updates[j][1]
                   v == validate_value(column_dict(Before)[c], last.updates[j][2]).v
               IN  /\ c \in IndexedNames(Before.columns)
                   /\ \/ Cardinality(targets) >= 2
                      \/ /\ targets # {}
                         /\ \E s \in Slots(Before) \ targets : RowAt(Before, s)[c] = v

\* C5: an update that would violate the uniqueness of a primary-key/unique
\* column fails with ConstraintViolation and changes no row and no index.
C5_UpdateAtomicOnUniqueness ==
    UpdateBreaksUniqueness =>
        (last.err = "ConstraintViolation" /\ tables = last.pre)

\* C6: an update that fails, for whatever reason and whatever the order of
\* its assignments, leaves every row and every index as before the call.
C6_UpdateNoPartialMutation ==
    (last.op = "update" /\ last.err # "none") => tables = last.pre

\* C7: after deleting the row at slot p the remaining rows keep content and
\* relative order, and for every indexed column a lookup by a remaining
\* row's value gives its prior slot minus one if that was above p and its
\* prior slot if that was below p.
C7_DeletionCompaction ==
    (last.op = "delete" /\ last.err = "none"
        /\ Len(DeleteIndices(Before, last.where)) = 1) =>
        LET p == DeleteIndices(Before, last.where)[1]
        IN  /\ After.rows = [i \in 1..(Len(Before.rows) - 1) |->
                                IF i <= p THEN Before.rows[i] ELSE Before.rows[i + 1]]
            /\ \A c \in DOMAIN After.indexes :
                   \A s \in Slots(Before) \ {p} :
                       IndexGet(After.indexes[c], RowAt(Before, s)[c])
                           = IF s > p THEN s - 1 ELSE s

\* The rows of a table that do not satisfy a where-clause, in their order.
RECURSIVE NonMatchingRows(_, _)
NonMatchingRows(rows, where) ==
    IF rows = <<>> THEN <<>>
    ELSE IF RowMatches(Head(rows), where)
         THEN NonMatchingRows(Tail(rows), where)
         ELSE <<Head(rows)>> \o NonMatchingRows(Tail(rows), where)

\* C8: delete removes every row that satisfies all conditions at call time
\* and no other row, keeps the other rows in their order, and returns the
\* number of rows removed.
C8_DeleteExactlyMatching ==
    last.op = "delete" =>
        /\ last.err = "none"
        /\ After.rows = NonMatchingRows(Before.rows, last.where)
        /\ last.ret = Cardinality(MatchingSlots(Before, last.where))

\* The row a successful update leaves in place of row: every assigned
\* column holds its validated new value (the last assignment to the column).
UpdatedRow(tbl, row, updates) ==
    [c \in DOMAIN row |->
        IF \E j \in DOMAIN updates : updates[j][1] = c
        THEN LET j == CHOOSE j \in DOMAIN updates : updates[j][1] = c
             IN  validate_value(column_dict(tbl)[c], updates[j][2]).v
        ELSE row[c]]

\* C9: a successful update writes the validated assignment values into
\* every row that satisfies all conditions at call time, leaves every other
\* row unchanged, and returns the number of rows it changed.
C9_UpdateExactlyMatching ==
    (last.op = "update" /\ last.err = "none") =>
        /\ Len(After.rows) = Len(Before.rows)
        /\ \A s \in Slots(Before) :
               RowAt(After, s) =
                   IF s \in MatchingSlots(Before, last.where)
                   THEN UpdatedRow(Before, RowAt(Before, s), last.updates)
                   ELSE RowAt(Before, s)
        /\ last.ret = Cardinality(MatchingSlots(Before, last.where))

RowSet(rows) == {rows[i] : i \in DOMAIN rows}

\* C10: in every reachable state, for any unique column C and value v,
\* select({C: v}) returns the same row set as a full scan of the row store
\* filtered by row[C] = v.
C10_IndexScanEquivalence ==
    \A n \in DOMAIN tables :
        \A c \in DOMAIN tables[n].indexes :
            \A v \in CondValues :
                /\ select(tables[n], <<<<c, v>>>>).err = "none"
                /\ RowSet(select(tables[n], <<<<c, v>>>>).result)
                       = RowSet(FilterRows(tables[n].rows, <<<<c, v>>>>))

\* C11: select_from returns copies of the rows, without conditions as with
\* conditions: after the caller has changed a field of a returned row, the
\* catalog (stored rows and indexes, hence every later select) is what it
\* was when the rows were returned.
C11_SelectReturnsCopies ==
    (last.op = "select" /\ last.mutated) => tables = last.pre

\* C12: a delete whose conditions match no row returns 0 and leaves the row
\* store and every index as they were.
C12_DeleteNoMatch ==
    (last.op = "delete" /\ MatchingSlots(Before, last.where) = {})
        => /\ last.err = "none"
           /\ last.ret = 0
           /\ tables = last.pre

\* A delete on a table with rows, by a value of an indexed column that no
\* row holds.
C12_Witness ==
    /\ last.op = "delete"
    /\ Len(last.where) = 1
    /\ last.where[1][1] \in DOMAIN Before.indexes
    /\ Len(Before.rows) > 0
    /\ MatchingSlots(Before, last.where) = {}
    /\ last.ret = 0

\* C13: after a successful insert of value v into column C, selecting the
\* row back yields validate_C(v) in field C, and validating that value
\* again gives the same value.
C13_CoercionRoundTrip ==
    (last.op = "insert" /\ last.err = "none")
        => LET back == select(After, <<>>).result
           IN  \A i \in DOMAIN Before.columns :
                   LET C == Before.columns[i]
                       stored == validate_value(C, last.values[i])
                   IN  /\ stored.ok
                       /\ back[Len(back)][C.name] = stored.v
                       /\ validate_value(C, stored.v) = stored

\* C14: a successful insert on a table of n rows puts the new row, holding
\* the validated value of every column, at slot n, leaves the rows of
\* slots 0..n-1 as they were, and adds to each index exactly one entry,
\* from the new row's value to slot n.
C14_InsertAppends ==
    (last.op = "insert" /\ last.err = "none")
        => LET n == Len(Before.rows)
           IN  /\ Len(After.rows) = n + 1
               /\ SubSeq(After.rows, 1, n) = Before.rows
               /\ DOMAIN RowAt(After, n) = ColumnNames(Before.columns)
               /\ \A i \in DOMAIN Before.columns :
                      RowAt(After, n)[Before.columns[i].name]
                          = validate_value(Before.columns[i], last.values[i]).v
               /\ DOMAIN After.indexes = DOMAIN Before.indexes
               /\ \A c \in DOMAIN Before.indexes :
                      LET v == RowAt(After, n)[c]
                      IN  /\ v \notin DOMAIN Before.indexes[c].fwd
                          /\ After.indexes[c].fwd
                                 = [w \in DOMAIN Before.indexes[c].fwd \cup {v} |->
                                       IF w = v THEN n
                                       ELSE Before.indexes[c].fwd[w]]
                          /\ After.indexes[c].rev
                                 = [s \in DOMAIN Before.indexes[c].rev \cup {n} |->
                                       IF s = n THEN v
                                       ELSE Before.indexes[c].rev[s]]

\* Number of primary-key columns of a column list.
PrimaryKeys(columns) ==
    Cardinality({i \in DOMAIN columns : columns[i].is_primary_key})

\* C15: insert_into, select_from, update_table, delete_from and drop_table
\* called with a name that is not in the catalog fail with SchemaError and
\* change neither the catalog nor any table.
C15_UnknownTable ==
    (/\ last.op \in {"insert", "select", "update", "delete", "drop"}
     /\ last.table \notin DOMAIN last.pre)
        => /\ last.err = "SchemaError"
           /\ tables = last.pre

\* An update under a name the catalog does not hold, while another table
\* holds rows.
C15_Witness ==
    /\ last.op = "update"
    /\ last.table \notin DOMAIN last.pre
    /\ \E n \in DOMAIN last.pre : Len(last.pre[n].rows) > 0
    /\ last.err = "SchemaError"

\* C16: create_table with a name already in the catalog fails with
\* SchemaError and leaves the table of that name, with its columns, rows
\* and indexes, as it was.
C16_CreateExisting ==
    (last.op = "create" /\ last.table \in DOMAIN last.pre)
        => /\ last.err = "SchemaError"
           /\ last.table \in DOMAIN tables
           /\ After = Before

\* A create_table with a valid column list, other than the existing
\* table's, under the name of a table that holds rows.
C16_Witness ==
    /\ last.op = "create"
    /\ last.table \in DOMAIN last.pre
    /\ TableInit(last.columns).ok
    /\ last.columns # Before.columns
    /\ Len(Before.rows) > 0
    /\ last.err = "SchemaError"

\* C17: create_table with an empty column list or with more than one
\* primary-key column fails with SchemaError and registers nothing; every
\* table in the catalog has at least one column and at most one
\* primary-key column.
C17_ValidColumnLists ==
    /\ (/\ last.op = "create"
        /\ (Len(last.columns) = 0 \/ PrimaryKeys(last.columns) > 1))
           => /\ last.err = "SchemaError"
              /\ tables = last.pre
    /\ \A n \in DOMAIN tables :
           /\ Len(tables[n].columns) >= 1
           /\ PrimaryKeys(tables[n].columns) <= 1

\* A create_table with two primary keys under a name that is free.
C17_Witness ==
    /\ last.op = "create"
    /\ last.table \notin DOMAIN last.pre
    /\ PrimaryKeys(last.columns) > 1
    /\ last.err = "SchemaError"
    /\ last.table \notin DOMAIN tables

\* C18: select_from with a projection list returns, for each row the
\* table's select gives, in the same number and order, a row holding
\* exactly the requested columns that the table has, with their stored
\* values; requested columns the table does not have are left out without
\* an error.
C18_Projection ==
    (/\ last.op = "select"
     /\ last.projection.given
     /\ last.table \in DOMAIN last.pre)
        => LET plain == select(Before, last.where)
               requested == {last.projection.names[i] :
                                i \in DOMAIN last.projection.names}
           IN  /\ last.err = plain.err
               /\ Len(last.result) = Len(plain.result)
               /\ \A k \in DOMAIN last.result :
                      /\ DOMAIN last.result[k]
                             = requested \cap ColumnNames(Before.columns)
                      /\ \A c \in DOMAIN last.result[k] :
                             last.result[k][c] = plain.result[k][c]

\* C19: after a successful drop_table the name is absent from the catalog;
\* while a name is absent every insert, select, update, delete and drop
\* on it fails with SchemaError and leaves it absent, and only a
\* create_table on that name brings it back, with zero rows and empty
\* indexes.
DropAndRecreateStep ==
    /\ (last'.op = "drop" /\ last'.err = "none")
           => last'.table \notin DOMAIN tables'
    /\ \A n \in TableNames \ DOMAIN tables :
           /\ (/\ last'.table = n
               /\ last'.op \in {"insert", "select", "update", "delete", "drop"})
                  => last'.err = "SchemaError"
           /\ n \in DOMAIN tables'
                  => /\ last'.op = "create"
                     /\ last'.table = n
                     /\ tables'[n].rows = <<>>
                     /\ \A c \in DOMAIN tables'[n].indexes :
                            tables'[n].indexes[c] = EmptyIndex

C19_DropAndRecreate == [][DropAndRecreateStep]_vars

\* A successful drop of a table that held rows.
C19_Witness ==
    /\ last.op = "drop"
    /\ last.err = "none"
    /\ Len(Before.rows) > 0
    /\ last.table \notin DOMAIN tables

\* C20: get_table_info lists exactly the tables of the catalog, each with
\* the length of its row store as row_count; that length is the number of
\* successful inserts minus the sum of the counts delete returned since
\* the table was created: a table starts with 0 rows (C19), a successful
\* insert adds 1, a delete that returns k takes k away, and no failed
\* call, select or update changes it.
C20_RowCountAccounting ==
    /\ last.op = "info"
           => /\ DOMAIN last.info = DOMAIN tables
              /\ \A n \in DOMAIN tables :
                     last.info[n].row_count = Len(tables[n].rows)
    /\ (last.op # "none" /\ last.table \in DOMAIN last.pre
            /\ last.table \in DOMAIN tables)
           => Len(After.rows)
                 = Len(Before.rows)
                   + (IF last.op = "insert" /\ last.err = "none" THEN 1 ELSE 0)
                   - (IF last.op = "delete" /\ last.err = "none"
                      THEN last.ret ELSE 0)

\* C21: the HTTP front end serializes access to its engine, so that the
\* operations of concurrent requests run one after the other: whenever no
\* request is inside Table.insert, no two rows of "users" hold the same
\* primary-key value and every index holds one entry per row, from the
\* row's value to its slot.
C21_SerializedAccess ==
    (\A r \in DOMAIN requests : requests[r].pc = "idle")
        => \A n \in DOMAIN tables :
               /\ \A c \in DOMAIN tables[n].indexes :
                      IndexMatchesRows(tables[n], c)
               /\ \A s1, s2 \in Slots(tables[n]) :
                      \A i \in DOMAIN tables[n].columns :
                          LET C == tables[n].columns[i]
                          IN  (/\ C.is_primary_key
                               /\ RowAt(tables[n], s1)[C.name]
                                      = RowAt(tables[n], s2)[C.name])
                                 => s1 = s2

\* C22: a delete processes the slots of its target rows in descending
\* order; when a slot is processed it still holds the row that was
\* resolved for it, and after every single row removal the indexes agree
\* with the row store (as they did before the delete).
C22_DeleteOrdering ==
    (last.op = "delete" /\ TargetRows(Before, last.where).err = "none")
        => LET indices == DeleteIndices(Before, last.where)
               states == DeleteStates(Before, indices, 1)
           IN  /\ {indices[k] : k \in DOMAIN indices}
                      = MatchingSlots(Before, last.where)
               /\ \A k \in 1..(Len(indices) - 1) : indices[k] > indices[k + 1]
               /\ Len(states) = Len(indices) + 1
               /\ \A k \in 1..(Len(states) - 1) :
                      RowAt(states[k], indices[k]) = RowAt(Before, indices[k])
               /\ (\A c \in DOMAIN Before.indexes : IndexMatchesRows(Before, c))
                      => \A k \in DOMAIN states :
                             \A c \in DOMAIN Before.indexes :
                                 IndexMatchesRows(states[k], c)
               /\ After = states[Len(states)]

\* The reverse map of an index is exactly the inverse of its forward map.
Inverse(index) ==
    /\ \A v \in DOMAIN index.fwd :
           index.fwd[v] \in DOMAIN index.rev /\ index.rev[index.fwd[v]] = v
    /\ \A s \in DOMAIN index.rev :
           index.rev[s] \in DOMAIN index.fwd /\ index.fwd[index.rev[s]] = s

\* C23: in every state reachable through the Table operations, also after
\* failed ones, each index's reverse map is exactly the inverse of its
\* forward map: no two values map to one slot, and no slot maps to a value
\* that does not map back to it.
C23_IndexBijection ==
    \A n \in DOMAIN tables :
        \A c \in DOMAIN tables[n].indexes : Inverse(tables[n].indexes[c])

\* A delete has renumbered an entry of an index that still holds entries.
C23_Witness ==
    /\ last.op = "delete"
    /\ last.err = "none"
    /\ \E c \in DOMAIN Before.indexes :
           \E v \in DOMAIN After.indexes[c].fwd :
               /\ v \in DOMAIN Before.indexes[c].fwd
               /\ After.indexes[c].fwd[v] < Before.indexes[c].fwd[v]

\* C24: every entry v -> s of the index of column C has s below the number
\* of rows and rows[s][C] = v, also after an update that failed part-way.
C24_IndexSoundness ==
    \A n \in DOMAIN tables :
        \A c \in DOMAIN tables[n].indexes :
            \A v \in DOMAIN tables[n].indexes[c].fwd :
                LET s == tables[n].indexes[c].fwd[v]
                IN  /\ s \in Slots(tables[n])
                    /\ RowAt(tables[n], s)[c] = v

\* An update has failed after changing the table, and an index still
\* holds an entry.
C24_Witness ==
    /\ last.op = "update"
    /\ last.err # "none"
    /\ After # Before
    /\ \E c \in DOMAIN After.indexes : DOMAIN After.indexes[c].fwd # {}

\* C25: every stored row has a field for every declared column; a value
\* stored in an INT column is an integer or null, a value stored in a TEXT
\* column is a text or null.
C25_TypedStorage ==
    \A n \in DOMAIN tables :
        \A s \in Slots(tables[n]) :
            \A i \in DOMAIN tables[n].columns :
                LET C == tables[n].columns[i]
                    row == RowAt(tables[n], s)
                IN  /\ C.name \in DOMAIN row
                    /\ C.data_type = "INT" => row[C.name].kind \in {"int", "null"}
                    /\ C.data_type = "TEXT" => row[C.name].kind \in {"text", "null"}

\* The column names an update assigns to.
Assigned(updates) == {updates[j][1] : j \in DOMAIN updates}

\* The slots an update works on: those it resolved for the selected rows.
UpdateSlots(tbl, where) ==
    LET indices == RowIndices(tbl.rows, TargetRows(tbl, where).result)
    IN  {indices[k] : k \in DOMAIN indices}

OwnValueUpdate(s) ==
    /\ last.op = "update"
    /\ Len(last.updates) = 1
    /\ last.updates[1][1] \in DOMAIN Before.indexes
    /\ RowIndices(Before.rows, TargetRows(Before, last.where).result) = <<s>>
    /\ LET c == last.updates[1][1]
           new == validate_value(column_dict(Before)[c], last.updates[1][2])
       IN  /\ new.ok
           /\ new.v = RowAt(Before, s)[c]

\* C27: an update that assigns to a primary-key or unique column of its
\* single target row the value the row already holds succeeds, returns 1
\* and leaves the rows and the indexes as they were before the call.
C27_UpdateOwnValue ==
    last.op = "update"
        => \A s \in Slots(Before) :
               OwnValueUpdate(s)
                   => /\ last.err = "none"
                      /\ last.ret = 1
                      /\ tables = last.pre

\* The last call is a select that takes the scan: one condition on a
\* declared column without an index, or two or more conditions on declared
\* columns.
ScanSelect ==
    /\ last.op = "select"
    /\ ~Truthy(last.projection)
    /\ \A k \in DOMAIN last.where :
           last.where[k][1] \in ColumnNames(Before.columns)
    /\ \/ Len(last.where) >= 2
       \/ Len(last.where) = 1 /\ last.where[1][1] \notin DOMAIN Before.indexes

\* The slots of tbl whose row holds, for every condition, the literal in
\* the condition's column.
EqualOnAll(tbl, where) ==
    {s \in Slots(tbl) :
        \A k \in DOMAIN where :
            /\ where[k][1] \in DOMAIN RowAt(tbl, s)
            /\ RowAt(tbl, s)[where[k][1]] = where[k][2]}

\* The k-th slot of a set of slots, in ascending order.
NthSlot(S, k) == CHOOSE s \in S : Cardinality({t \in S : t < s}) = k - 1

\* C28: a select that takes the scan succeeds and returns the rows that
\* equal the literal on every condition, each once and in the order of the
\* row store, and changes no table.
C28_ScanSelect ==
    ScanSelect
        => /\ last.err = "none"
           /\ tables = last.pre
           /\ Len(last.result) = Cardinality(EqualOnAll(Before, last.where))
           /\ \A k \in DOMAIN last.result :
                  last.result[k]
                      = RowAt(Before, NthSlot(EqualOnAll(Before, last.where), k))

\* A scan with two conditions over three rows that returned the first and
\* the last row and skipped the row between them.
C28_Witness ==
    /\ ScanSelect
    /\ Len(last.where) = 2
    /\ Len(Before.rows) = 3
    /\ EqualOnAll(Before, last.where) = {0, 2}
    /\ Len(last.result) = 2

\* Index after is index before, adjusted for the deletion of slot d.
AdjustedFrom(before, after, d) ==
    /\ \A v \in DOMAIN before.fwd :
           /\ before.fwd[v] > d
                  => v \in DOMAIN after.fwd /\ after.fwd[v] = before.fwd[v] - 1
           /\ before.fwd[v] < d
                  => v \in DOMAIN after.fwd /\ after.fwd[v] = before.fwd[v]
           /\ before.fwd[v] = d => v \notin DOMAIN after.fwd
    /\ DOMAIN after.fwd = {v \in DOMAIN before.fwd : before.fwd[v] # d}
    /\ Inverse(after)

\* The passes of the last call's delete loop: the table before the pass,
\* the slot of the pass, and the table after it.
DeletePasses ==
    LET indices == DeleteIndices(Before, last.where)
        states == DeleteStates(Before, indices, 1)
    IN  {[tbl |-> states[k], idx |-> indices[k], next |-> states[k + 1]] :
            k \in 1..(Len(states) - 1)}

\* C29: adjust_for_deletion(d) renumbers every entry above d to its slot
\* minus one, leaves every entry below d, keeps no entry that was at d,
\* keeps every other value, and rebuilds the reverse map as the inverse of
\* the forward map: in every pass of a delete, on the index from which the
\* deleted row's value was removed, and on every index the tables hold,
\* for every slot.
C29_AdjustForDeletion ==
    /\ (last.op = "delete" /\ TargetRows(Before, last.where).err = "none")
           => \A p \in DeletePasses :
                  \A c \in DOMAIN p.tbl.indexes :
                      AdjustedFrom(
                          IndexRemove(p.tbl.indexes[c],
                                      RowAt(p.tbl, p.idx)[c], p.idx),
                          p.next.indexes[c], p.idx)
    /\ \A n \in DOMAIN tables :
           \A c \in DOMAIN tables[n].indexes :
               \A d \in 0..Len(tables[n].rows) :
                   AdjustedFrom(tables[n].indexes[c],
                                IndexAdjustForDeletion(tables[n].indexes[c], d),
                                d)

\* A delete removed the first of three rows, and the index entries of the
\* two other rows moved from slots 1 and 2 to slots 0 and 1.
C29_Witness ==
    /\ last.op = "delete"
    /\ last.err = "none"
    /\ last.ret = 1
    /\ Len(Before.rows) = 3
    /\ \E c \in DOMAIN Before.indexes :
           /\ {Before.indexes[c].fwd[v] : v \in DOMAIN Before.indexes[c].fwd}
                  = {0, 1, 2}
           /\ {After.indexes[c].fwd[v] : v \in DOMAIN After.indexes[c].fwd}
                  = {0, 1}
           /\ \A v \in DOMAIN After.indexes[c].fwd :
                  Before.indexes[c].fwd[v] = After.indexes[c].fwd[v] + 1

\* Index after is index before with (value, slot) removed: the forward
\* entry of value is gone if it was at slot and kept otherwise, the
\* reverse entry of slot is gone, every other entry is as it was.
RemovedFrom(before, after, value, slot) ==
    /\ (value \in DOMAIN before.fwd /\ before.fwd[value] = slot)
           => value \notin DOMAIN after.fwd
    /\ (value \in DOMAIN before.fwd /\ before.fwd[value] # slot)
           => value \in DOMAIN after.fwd /\ after.fwd[value] = before.fwd[value]
    /\ slot \notin DOMAIN after.rev
    /\ DOMAIN after.fwd \ {value} = DOMAIN before.fwd \ {value}
    /\ \A v \in DOMAIN before.fwd \ {value} : after.fwd[v] = before.fwd[v]
    /\ DOMAIN after.rev = DOMAIN before.rev \ {slot}
    /\ \A s \in DOMAIN after.rev : after.rev[s] = before.rev[s]

\* The last call is an update that stopped in the apply pass of its first
\* target row, after "Remove old values from indexes": its first
\* assignment names a column the table does not have.
UpdateStoppedAfterRemove ==
    /\ last.op = "update"
    /\ last.err = "KeyError"
    /\ last.updates[1][1] \notin ColumnNames(Before.columns)

\* Values an index of the model can be asked to remove.
RemoveValues(tbl, c) ==
    DOMAIN tbl.indexes[c].fwd \cup {RowAt(tbl, s)[c] : s \in Slots(tbl)}

\* C30: remove(value, slot) removes the forward entry of value only if it
\* maps to slot, removes the reverse entry of slot, and leaves every other
\* forward and reverse entry: on the indexes of the assigned columns when
\* an update stopped after its removals, and on every index the tables
\* hold, for every value and slot.
C30_IndexRemoveFrame ==
    /\ UpdateStoppedAfterRemove
           => LET idx == RowIndices(Before.rows,
                                    TargetRows(Before, last.where).result)[1]
              IN  \A c \in DOMAIN Before.indexes :
                      IF c \in Assigned(last.updates)
                      THEN RemovedFrom(Before.indexes[c], After.indexes[c],
                                       RowAt(Before, idx)[c], idx)
                      ELSE After.indexes[c] = Before.indexes[c]
    /\ \A n \in DOMAIN tables :
           \A c \in DOMAIN tables[n].indexes :
               \A value \in RemoveValues(tables[n], c) :
                   \A slot \in 0..Len(tables[n].rows) :
                       RemovedFrom(tables[n].indexes[c],
                                   IndexRemove(tables[n].indexes[c], value, slot),
                                   value, slot)

\* An update stopped after removing the first row's value from an index
\* that held two entries, and the entry of the other row is still there.
C30_Witness ==
    /\ UpdateStoppedAfterRemove
    /\ \E c \in DOMAIN Before.indexes \cap Assigned(last.updates) :
           /\ Cardinality(DOMAIN Before.indexes[c].fwd) = 2
           /\ Cardinality(DOMAIN After.indexes[c].fwd) = 1
           /\ \A v \in DOMAIN After.indexes[c].fwd :
                  After.indexes[c].fwd[v] = 1 /\ After.indexes[c].rev[1] = v

\* The index before the last call of Index.update, and the call's
\* old value, new value and slot.
IndexBefore == last.index

OldValue == last.values[1]

NewValue == last.values[2]

UpdatedSlot == last.ret

\* Every entry of index before that is neither at value nor at slot is in
\* index after, and after has no other entry apart from those of values.
OthersUnchanged(before, after, values, slot) ==
    /\ DOMAIN after.fwd \ values = DOMAIN before.fwd \ values
    /\ \A v \in DOMAIN after.fwd \ values : after.fwd[v] = before.fwd[v]
    /\ DOMAIN after.rev \ {slot} = DOMAIN before.rev \ {slot}
    /\ \A i \in DOMAIN after.rev \ {slot} : after.rev[i] = before.rev[i]

\* C31: Index.update(old_value, new_value, slot) with old_value at slot:
\* when the index does not hold new_value, new_value is at slot afterwards
\* and old_value is absent; when it holds new_value for another slot, the
\* call fails with the duplicate error, the index has no entry for slot
\* afterwards (the entry of old_value is not put back), and the other
\* entries are as before.
C31_IndexUpdate ==
    (/\ last.op = "index_update"
     /\ OldValue \in DOMAIN IndexBefore.fwd
     /\ IndexBefore.fwd[OldValue] = UpdatedSlot)
        => /\ NewValue \notin DOMAIN IndexBefore.fwd
                  => /\ last.err = "none"
                     /\ NewValue \in DOMAIN index_obj.fwd
                     /\ index_obj.fwd[NewValue] = UpdatedSlot
                     /\ UpdatedSlot \in DOMAIN index_obj.rev
                     /\ index_obj.rev[UpdatedSlot] = NewValue
                     /\ OldValue \notin DOMAIN index_obj.fwd
                     /\ OthersUnchanged(IndexBefore, index_obj,
                                        {OldValue, NewValue}, UpdatedSlot)
           /\ (/\ NewValue \in DOMAIN IndexBefore.fwd
               /\ IndexBefore.fwd[NewValue] # UpdatedSlot)
                  => /\ last.err = "ConstraintViolation"
                     /\ UpdatedSlot \notin DOMAIN index_obj.rev
                     /\ \A v \in DOMAIN index_obj.fwd : index_obj.fwd[v] # UpdatedSlot
                     /\ OldValue \notin DOMAIN index_obj.fwd
                     /\ OthersUnchanged(IndexBefore, index_obj,
                                        {OldValue}, UpdatedSlot)

\* A failed Index.update on an index of two entries: the entry of the new
\* value is still there, the entry of the old value is gone.
C31_Witness ==
    /\ last.op = "index_update"
    /\ last.err = "ConstraintViolation"
    /\ Cardinality(DOMAIN IndexBefore.fwd) = 2
    /\ DOMAIN index_obj.fwd = {NewValue}
    /\ OldValue # NewValue
    /\ index_obj.fwd[NewValue] = IndexBefore.fwd[NewValue]

\* C32: every table of the catalog has pairwise distinct column names,
\* and every stored row has as many fields as its table has columns.
C32_UniqueColumnNames ==
    \A n \in DOMAIN tables :
        /\ \A i, j \in DOMAIN tables[n].columns :
               tables[n].columns[i].name = tables[n].columns[j].name => i = j
        /\ \A s \in Slots(tables[n]) :
               Cardinality(DOMAIN RowAt(tables[n], s)) = Len(tables[n].columns)

\* The slots of tbl whose row holds null in column c.
NullSlots(tbl, c) == {s \in Slots(tbl) : RowAt(tbl, s)[c] = Null}

\* The last call is an insert of a well-formed value list that gives null
\* to the indexed column c while a row of the table holds null in c.
SecondNullInsert(c) ==
    /\ last.op = "insert"
    /\ Len(last.values) = Len(Before.columns)
    /\ \A i \in DOMAIN last.values :
           validate_value(Before.columns[i], last.values[i]).ok
    /\ \E i \in DOMAIN last.values :
           Before.columns[i].name = c /\ last.values[i] = Null
    /\ NullSlots(Before, c) # {}

\* The last call is a select of whole rows with the one condition
\* c = null.
NullSelect(c) ==
    /\ last.op = "select"
    /\ ~Truthy(last.projection)
    /\ last.where = <<<<c, Null>>>>

\* C33: a primary-key or unique column holds null in at most one row; an
\* insert of null into such a column while a row holds null there fails
\* with ConstraintViolation and changes nothing; a select on null in such
\* a column returns exactly the rows that hold null there.
C33_NullInUniqueColumn ==
    /\ \A n \in DOMAIN tables :
           \A c \in DOMAIN tables[n].indexes :
               Cardinality(NullSlots(tables[n], c)) <= 1
    /\ last.op = "insert"
           => \A c \in DOMAIN Before.indexes :
                  SecondNullInsert(c)
                      => last.err = "ConstraintViolation" /\ tables = last.pre
    /\ last.op = "select"
           => \A c \in DOMAIN Before.indexes :
                  NullSelect(c)
                      => /\ last.err = "none"
                         /\ Len(last.result) = Cardinality(NullSlots(Before, c))
                         /\ \A k \in DOMAIN last.result :
                                \E s \in NullSlots(Before, c) :
                                    last.result[k] = RowAt(Before, s)

\* C34: a delete without conditions on a table of n rows, also one with
\* rows of equal content, addresses no slot outside the row store, returns
\* n, and leaves no row and no index entry.
C34_DeleteAllEmpties ==
    (last.op = "delete" /\ last.where = <<>>)
        => /\ last.err = "none"
           /\ last.ret = Len(Before.rows)
           /\ After.rows = <<>>
           /\ \A c \in DOMAIN After.indexes : After.indexes[c] = EmptyIndex
           /\ After.columns = Before.columns

\* A delete without conditions emptied a table of three rows of which the
\* last two had equal content and the first another.
C34_Witness ==
    /\ last.op = "delete"
    /\ last.where = <<>>
    /\ last.ret = 3
    /\ Len(Before.rows) = 3
    /\ RowAt(Before, 1) = RowAt(Before, 2)
    /\ RowAt(Before, 0) # RowAt(Before, 1)
    /\ After.rows = <<>>

\* The names of the catalog other than the one the last call was made on.
OtherTables(tbls) == DOMAIN tbls \ {last.table}

\* C35: an insert, update or delete on one table, successful or failed,
\* and a create_table or drop_table of one name, leave every other table of
\* the catalog in the catalog with its columns, rows and indexes as they
\* were, and put no other table into the catalog.
C35_TableIsolation ==
    last.op \in {"insert", "update", "delete", "create", "drop"}
        => /\ OtherTables(tables) = OtherTables(last.pre)
           /\ \A n \in OtherTables(last.pre) : tables[n] = last.pre[n]

\* A delete removed the only row of one table while another table with
\* the same columns holds a row, which is still there.
C35_Witness ==
    /\ last.op = "delete"
    /\ last.err = "none"
    /\ last.ret = 1
    /\ last.table \in DOMAIN tables
    /\ After.rows = <<>>
    /\ \E n \in OtherTables(tables) :
           /\ Len(tables[n].rows) = 1
           /\ tables[n].rows = last.pre[n].rows
           /\ tables[n].columns = Before.columns

====
